---------------------------- MODULE Spec2Model ----------------------------
(***************************************************************************)
(* Data ingestion microservice: the MQTT intake loop (main), the           *)
(* per-message task (process_message) over the Redis list store and the    *)
(* MongoDB trips collection, and the route simplifier.                     *)
(*                                                                         *)
(* Strings are sequences of characters, so that format!("{}:{}") is a real *)
(* concatenation.  Coordinates are integers of a small grid and distances  *)
(* are compared exactly through their squares, kept as fractions           *)
(* <<numerator, denominator>>; floating-point rounding is not modelled.    *)
(***************************************************************************)
EXTENDS Integers, Sequences, FiniteSets, TLC

VARIABLES
    mainPc,      \* position of main's loop: "poll", "connect", "other", "exited"
    pending,     \* payload of the Publish packet main holds before the spawn
    exitCause,   \* which `?` ended main ("none" while it runs)
    tasks,       \* the spawned tasks, in spawn order
    redis,       \* fast store: key -> non-empty list of JSON strings
    mongo,       \* trips collection: the inserted documents, in insert order
    overlapped,  \* history: a task was spawned while another was in flight
    solo,        \* history: per key, the stores had only its tasks been run
    locations,   \* simplifier harness: the input slice
    tolerance,   \* simplifier harness: RouteSimplifier.tolerance, <<num, den>>
    simPc,       \* harnesses: position of the caller ("idle" in the service)
    result,      \* simplifier harness: the Vec returned
    outcome,     \* simplifier harness: the last new or set_tolerance call
    statsArgs,   \* statistics harness: the arguments of the call
    stats,       \* statistics harness: the RouteStats or TripDocument returned
    events,      \* key harness: the two decoded messages
    keys,        \* key harness: the two keys derived
    anchor,      \* simplify_route_custom, stepwise: i, 1-based (0 before the loop)
    trail        \* history: the values i has taken, in order

vars == <<mainPc, pending, exitCause, tasks, redis, mongo,
          overlapped, solo, locations, tolerance, simPc, result, outcome,
          statsArgs, stats, events, keys, anchor, trail>>

pipelineVars == <<mainPc, pending, exitCause, tasks, redis,
                  mongo, overlapped, solo>>

simplifierVars == <<locations, tolerance, simPc, result, outcome>>

utilityVars == <<statsArgs, stats, events, keys>>

loopVars == <<anchor, trail>>

harnessVars == <<simplifierVars, utilityVars, loopVars>>

-----------------------------------------------------------------------------
(* Bounds of the model *)

MaxMsgs == 3

MaxLen == 4

GridMax == 2

MaxTol == 3

MaxCount == 5

MaxIdLen == 2

-----------------------------------------------------------------------------
(* types.rs: Location, BusStatus, BusMessage and their JSON forms *)

Location(lat, lon) == [latitude |-> lat, longitude |-> lon]

\* A JSON member of a payload: absent, a string, a number or an object.
JAbsent == [t |-> "absent", s |-> <<>>, n |-> 0, o |-> Location(0, 0)]

JStr(s) == [t |-> "str", s |-> s, n |-> 0, o |-> Location(0, 0)]

JNum(n) == [t |-> "num", s |-> <<>>, n |-> n, o |-> Location(0, 0)]

JObj(lat, lon) == [t |-> "obj", s |-> <<>>, n |-> 0, o |-> Location(lat, lon)]

\* A payload: the bytes of one Publish packet, seen as JSON text.
Payload(wellFormed, d, loc, ts, r, st, extra) ==
    [json |-> wellFormed, driverId |-> d, driverLocation |-> loc,
     timestamp |-> ts, currentRouteId |-> r, status |-> st, extra |-> extra]

NoPayload == Payload(FALSE, JAbsent, JAbsent, JAbsent, JAbsent, JAbsent, FALSE)

NoMsg == [driver_id |-> <<>>, driver_location |-> Location(0, 0),
          timestamp |-> 0, current_route_id |-> <<>>, status |-> "none"]

\* The mutant reads both status names as InRoute.
BusStatusOfAllInRoute(s) ==
    IF s = <<"in_route">> \/ s = <<"finished">> THEN "InRoute" ELSE "none"

\* #[serde(rename_all = "snake_case")] enum BusStatus
BusStatusOf(s) ==
    IF s = <<"in_route">> THEN "InRoute"
    ELSE IF s = <<"finished">> THEN "Finished"
    ELSE "none"

\* The mutant accepts any status string as InRoute.
BusStatusDeserializesLax(st) == st.t = "str"

BusStatusDeserializes(st) == st.t = "str" /\ BusStatusOf(st.s) # "none"

\* The five members of BusMessage are required and typed (String, Location,
\* u64, String, BusStatus); no container attribute denies unknown members.
FieldsDeserialize(p) ==
    /\ p.driverId.t = "str"
    /\ p.driverLocation.t = "obj"
    /\ p.timestamp.t = "num" /\ p.timestamp.n >= 0
    /\ p.currentRouteId.t = "str"

\* serde_json::from_slice::<BusMessage>(payload)
DecodeOk(p) == p.json /\ FieldsDeserialize(p) /\ BusStatusDeserializes(p.status)

Decode(p) ==
    [driver_id |-> p.driverId.s,
     driver_location |-> p.driverLocation.o,
     timestamp |-> p.timestamp.n,
     current_route_id |-> p.currentRouteId.s,
     status |-> IF BusStatusOf(p.status.s) = "none" THEN "InRoute"
                ELSE BusStatusOf(p.status.s)]

\* serde_json::to_string(&Location) and serde_json::from_str::<Location>
LocationToJson(loc) == <<"latitude", loc.latitude, "longitude", loc.longitude>>

LocationFromJson(j) == Location(j[2], j[4])

\* for p in points_json { locations.push(serde_json::from_str(&p)?) }
ParseAll(pointsJson) == [i \in 1..Len(pointsJson) |-> LocationFromJson(pointsJson[i])]

\* The mutant leaves the separator out.
KeyOfNoSeparator(msg) == msg.driver_id \o msg.current_route_id

\* format!("{}:{}", msg.driver_id, msg.current_route_id)
KeyOf(msg) == msg.driver_id \o <<":">> \o msg.current_route_id

-----------------------------------------------------------------------------
(* Exact comparison of non-negative distances through their squares *)

\* a > b and a >= b for fractions <<num, den>> with den > 0
FracGt(a, b) == a[1] * b[2] > b[1] * a[2]

\* The mutant turns the comparison round.
FracLe(a, b) == a[1] * b[2] <= b[1] * a[2]

FracGe(a, b) == a[1] * b[2] >= b[1] * a[2]

\* distance > tolerance, for a squared distance d and a tolerance t > 0
ExceedsTolerance(d, t) == d[1] * t[2] * t[2] > t[1] * t[1] * d[2]

Abs(n) == IF n < 0 THEN -n ELSE n

-----------------------------------------------------------------------------
(* route_simplification.rs: simplify_route, through geo's Simplify *)

\* Point::new(loc.longitude, loc.latitude)
PointOf(loc) == [x |-> loc.longitude, y |-> loc.latitude]

\* locations.iter().map(..).collect::<Vec<Point<f64>>>()
PointsOf(locs) == [i \in 1..Len(locs) |-> PointOf(locs[i])]

\* The mutant swaps the axes on the way back.
LocationOfSwapped(point) == Location(point.x, point.y)

\* Location { latitude: point.y, longitude: point.x }
LocationOf(point) == Location(point.y, point.x)

\* simplified_linestring.0.iter().map(..).collect::<Vec<Location>>()
LocationsOf(points) == [i \in 1..Len(points) |-> LocationOf(points[i])]

EuclidSq(p, q) == (p.x - q.x) * (p.x - q.x) + (p.y - q.y) * (p.y - q.y)

\* The mutant measures every distance to the start of the segment.
SegmentDistSqToStart(point, start, end) == <<EuclidSq(point, start), 1>>

\* Squared distance from a coordinate to the segment start..end, as geo
\* measures it for the Ramer-Douglas-Peucker reduction of a LineString: the
\* distance to the nearer end when the projection falls outside the segment.
SegmentDistSq(point, start, end) ==
    IF start = end THEN <<EuclidSq(point, start), 1>>
    ELSE LET dx == end.x - start.x
             dy == end.y - start.y
             dSquared == dx * dx + dy * dy
             r == (point.x - start.x) * dx + (point.y - start.y) * dy
             s == (start.y - point.y) * dx - (start.x - point.x) * dy
         IN IF r <= 0 THEN <<EuclidSq(point, start), 1>>
            ELSE IF r >= dSquared THEN <<EuclidSq(point, end), 1>>
            ELSE <<s * s, dSquared>>

\* The fold over the interior indices: the last index of maximum distance.
RECURSIVE Farthest(_, _, _, _)
Farthest(pts, i, farthestIndex, farthestDistance) ==
    IF i > Len(pts) - 1 THEN <<farthestIndex, farthestDistance>>
    ELSE LET d == SegmentDistSq(pts[i], pts[1], pts[Len(pts)])
         IN IF FracGe(d, farthestDistance)
            THEN Farthest(pts, i + 1, i, d)
            ELSE Farthest(pts, i + 1, farthestIndex, farthestDistance)

\* The mutant keeps the pivot of the left half and repeats it from the right.
JoinHalvesKeepsPivot(left, right) == left \o right

\* left.pop(); left.extend_from_slice(&right)
JoinHalves(left, right) == SubSeq(left, 1, Len(left) - 1) \o right

RECURSIVE ComputeRdp(_, _)
ComputeRdp(pts, epsilon) ==
    IF pts = <<>> THEN <<>>
    ELSE IF Len(pts) = 2 THEN <<pts[1], pts[2]>>
    ELSE LET f == Farthest(pts, 2, 0, <<0, 1>>)
         IN IF ExceedsTolerance(f[2], epsilon)
            THEN LET left == ComputeRdp(SubSeq(pts, 1, f[1]), epsilon)
                     right == ComputeRdp(SubSeq(pts, f[1], Len(pts)), epsilon)
                 IN JoinHalves(left, right)
            ELSE <<pts[1], pts[Len(pts)]>>

\* linestring.simplify(&self.tolerance)
Simplify(pts, epsilon) == IF epsilon[1] <= 0 THEN pts ELSE ComputeRdp(pts, epsilon)

\* The mutant runs the reduction on inputs of every length.
SimplifyRouteUnguarded(locs, tol) ==
    LocationsOf(Simplify(PointsOf(locs), tol))

SimplifyRoute(locs, tol) ==
    IF locs = <<>> THEN <<>>
    ELSE IF Len(locs) <= 2 THEN locs
    ELSE LocationsOf(Simplify(PointsOf(locs), tol))

-----------------------------------------------------------------------------
(* route_simplification.rs: simplify_route_custom *)

\* distance(p1, p2), squared
DistanceSq(p1, p2) ==
    (p1.longitude - p2.longitude) * (p1.longitude - p2.longitude)
      + (p1.latitude - p2.latitude) * (p1.latitude - p2.latitude)

\* perpendicular_distance(point, line_start, line_end), squared
PerpendicularDistanceSq(point, lineStart, lineEnd) ==
    LET area == Abs(lineStart.longitude * (lineEnd.latitude - point.latitude)
                    + lineEnd.longitude * (point.latitude - lineStart.latitude)
                    + point.longitude * (lineStart.latitude - lineEnd.latitude))
        baseSq == DistanceSq(lineStart, lineEnd)
    IN IF baseSq = 0 THEN <<DistanceSq(point, lineStart), 1>>
       ELSE <<area * area, baseSq>>

\* The inner for loop from index j on; indices are 1-based here.
RECURSIVE LookAhead(_, _, _, _, _, _)
LookAhead(locs, i, j, farthestIndex, maxDistance, tol) ==
    IF j > Len(locs) THEN farthestIndex
    ELSE LET d == PerpendicularDistanceSq(locs[j], locs[i], locs[Len(locs)])
         IN IF ExceedsTolerance(d, tol) THEN farthestIndex
            ELSE IF FracGt(d, maxDistance)
                 THEN LookAhead(locs, i, j + 1, j, d, tol)
                 ELSE LookAhead(locs, i, j + 1, farthestIndex, maxDistance, tol)

\* The mutant starts farthest_index at the anchor itself.
RoundFarthestFromAnchor(locs, i, tol) == LookAhead(locs, i, i + 1, i, <<0, 1>>, tol)

\* farthest_index at the end of one iteration of the while loop: it starts
\* at i + 1 with max_distance 0.0.
RoundFarthest(locs, i, tol) == LookAhead(locs, i, i + 1, i + 1, <<0, 1>>, tol)

\* The while loop from anchor i on.
RECURSIVE CustomLoop(_, _, _, _)
CustomLoop(locs, i, simplified, tol) ==
    IF i < Len(locs)
    THEN LET f == RoundFarthest(locs, i, tol)
         IN CustomLoop(locs, f, Append(simplified, locs[f]), tol)
    ELSE simplified

\* The mutant pushes the last input point whatever the loop has pushed.
SimplifyRouteCustomAlwaysPushes(locs, tol) ==
    IF locs = <<>> THEN <<>>
    ELSE IF Len(locs) <= 2 THEN locs
    ELSE Append(CustomLoop(locs, 1, <<locs[1]>>, tol), locs[Len(locs)])

SimplifyRouteCustom(locs, tol) ==
    IF locs = <<>> THEN <<>>
    ELSE IF Len(locs) <= 2 THEN locs
    ELSE LET simplified == CustomLoop(locs, 1, <<locs[1]>>, tol)
         IN IF simplified[Len(simplified)] # locs[Len(locs)]
            THEN Append(simplified, locs[Len(locs)])
            ELSE simplified

-----------------------------------------------------------------------------
(* The messages the broker may deliver *)

D1 == <<"d", "1">>

R1 == <<"r", "1">>

R2 == <<"r", "2">>

Timestamp == JNum(7)

InRoutePayload(d, r, lat, lon) ==
    Payload(TRUE, JStr(d), JObj(lat, lon), Timestamp, JStr(r),
            JStr(<<"in_route">>), FALSE)

FinishedPayload(d, r) ==
    Payload(TRUE, JStr(d), JObj(0, 0), Timestamp, JStr(r),
            JStr(<<"finished">>), FALSE)

\* An accepted payload that carries a member BusMessage does not have.
ExtraFieldPayload ==
    Payload(TRUE, JStr(D1), JObj(1, 0), Timestamp, JStr(R1),
            JStr(<<"in_route">>), TRUE)

\* A payload whose driverId is the empty string.
EmptyIdPayload == InRoutePayload(<<>>, R1, 0, 0)

\* Bytes that are no JSON, a missing member, and a status outside the enum.
GarbagePayload == NoPayload

MissingFieldPayload ==
    Payload(TRUE, JAbsent, JObj(0, 0), Timestamp, JStr(R1),
            JStr(<<"in_route">>), FALSE)

BadStatusPayload ==
    Payload(TRUE, JStr(D1), JObj(0, 0), Timestamp, JStr(R1),
            JStr(<<"paused">>), FALSE)

\* The traffic of two trips.
TripPayloads ==
    { InRoutePayload(D1, R1, 0, 0), InRoutePayload(D1, R1, 1, 1),
      InRoutePayload(D1, R2, 0, 1), FinishedPayload(D1, R1),
      FinishedPayload(D1, R2) }

\* The traffic of one trip among packets the decoder has to judge.
DecodePayloads ==
    { FinishedPayload(D1, R1), ExtraFieldPayload, EmptyIdPayload,
      GarbagePayload, MissingFieldPayload, BadStatusPayload }

-----------------------------------------------------------------------------
(* main.rs: the fast store and the trips collection as the code uses them *)

\* The mutant leaves the list alone when it holds an equal value, as a set
\* would.
RpushDistinct(store, key, value) ==
    [k \in DOMAIN store \cup {key} |->
        IF k = key
        THEN (IF key \in DOMAIN store
              THEN (IF \E i \in 1..Len(store[key]) : store[key][i] = value
                    THEN store[key] ELSE store[key] \o <<value>>)
              ELSE <<value>>)
        ELSE store[k]]

\* The mutant pushes at the head of the list, as LPUSH does.
RpushAtHead(store, key, value) ==
    [k \in DOMAIN store \cup {key} |->
        IF k = key
        THEN <<value>> \o (IF key \in DOMAIN store THEN store[key] ELSE <<>>)
        ELSE store[k]]

\* redis_conn.rpush(&key, value)
Rpush(store, key, value) ==
    [k \in DOMAIN store \cup {key} |->
        IF k = key
        THEN (IF key \in DOMAIN store THEN store[key] ELSE <<>>) \o <<value>>
        ELSE store[k]]

\* redis_conn.lrange(&key, 0, -1)
Lrange(store, key) == IF key \in DOMAIN store THEN store[key] ELSE <<>>

\* The mutant empties the store, as FLUSHDB does.
DelFlushes(store, key) == [k \in {} |-> <<>>]

\* The mutant removes the first element of the list, as LPOP does.
DelPopsHead(store, key) ==
    [k \in {j \in DOMAIN store : j # key \/ Len(store[j]) > 1} |->
        IF k = key THEN Tail(store[k]) ELSE store[k]]

\* The mutant deletes nothing, as a del of another key would.
DelMissesKey(store, key) == store

\* redis_conn.del(&key)
Del(store, key) == [k \in DOMAIN store \ {key} |-> store[k]]

\* The mutant replaces the document of the same driver and route, as an
\* upsert on the trip would.
InsertOneUpserts(coll, doc) ==
    IF \E i \in 1..Len(coll) : /\ coll[i].driverId = doc.driverId
                               /\ coll[i].currentRouteId = doc.currentRouteId
    THEN [i \in 1..Len(coll) |->
            IF /\ coll[i].driverId = doc.driverId
               /\ coll[i].currentRouteId = doc.currentRouteId
            THEN doc ELSE coll[i]]
    ELSE Append(coll, doc)

\* trips_collection.insert_one(trip_doc, None)
InsertOne(coll, doc) == Append(coll, doc)

\* doc! { "latitude": loc.latitude, "longitude": loc.longitude }
PointDoc(loc) == [latitude |-> loc.latitude, longitude |-> loc.longitude]

\* The mutant writes each count under the other's name.
TripDocCountsSwapped(id, msg, locs, simplified) ==
    [_id |-> id,
     driverId |-> msg.driver_id,
     currentRouteId |-> msg.current_route_id,
     simplifiedRoute |-> [i \in 1..Len(simplified) |-> PointDoc(simplified[i])],
     timestamp |-> msg.timestamp,
     originalPointsCount |-> Len(simplified),
     simplifiedPointsCount |-> Len(locs)]

\* The doc! of process_message; _id stands for the ObjectId the driver adds,
\* here the index of the inserting task.
TripDoc(id, msg, locs, simplified) ==
    [_id |-> id,
     driverId |-> msg.driver_id,
     currentRouteId |-> msg.current_route_id,
     simplifiedRoute |-> [i \in 1..Len(simplified) |-> PointDoc(simplified[i])],
     timestamp |-> msg.timestamp,
     originalPointsCount |-> Len(locs),
     simplifiedPointsCount |-> Len(simplified)]

-----------------------------------------------------------------------------
(* main.rs: tasks *)

NewTask(payload) ==
    [payload |-> payload, pc |-> "decode", msg |-> NoMsg, key |-> <<>>,
     locations |-> <<>>, ops |-> <<>>, error |-> "none", disturbed |-> FALSE]

Terminal == {"ok", "err", "cancelled"}

InFlight(t) == t \in 1..Len(tasks) /\ tasks[t].pc \notin Terminal

Fail(task, what) == [task EXCEPT !.pc = "err", !.error = what]

\* A store call and whether it succeeded, as kept in a task's history.
Call(op, ok) == [op |-> op, ok |-> ok]

Issue(task, op, ok) == [task EXCEPT !.ops = Append(@, Call(op, ok))]

\* History: task t changed the list of key; the tasks that hold a range read
\* of that key no longer hold the list the store has.
Disturb(ts, t, key) ==
    [u \in 1..Len(ts) |->
        IF u # t /\ ts[u].key = key /\ ts[u].ops # <<>> /\ ts[u].ops[1] = Call("lrange", TRUE)
        THEN [ts[u] EXCEPT !.disturbed = TRUE]
        ELSE ts[u]]

\* History: the fast store, the trips collection and the range reads of the
\* run in which only the tasks of one key take their steps, in the same order.
NoSolo == [redis |-> [k \in {} |-> <<>>], mongo |-> <<>>, read |-> <<>>]

SoloOf(s, key) == IF key \in DOMAIN s THEN s[key] ELSE NoSolo

SoloPut(s, key, run) == [k \in DOMAIN s \cup {key} |-> IF k = key THEN run ELSE s[k]]

SoloRpush(s, key, value) ==
    LET run == SoloOf(s, key)
    IN SoloPut(s, key, [run EXCEPT !.redis = Rpush(run.redis, key, value)])

SoloLrange(s, t, key) ==
    LET run == SoloOf(s, key)
        locs == ParseAll(Lrange(run.redis, key))
    IN SoloPut(s, key,
               [run EXCEPT !.read = [u \in DOMAIN run.read \cup {t} |->
                                        IF u = t THEN locs ELSE run.read[u]]])

SoloInsert(s, t, key, msg, tol) ==
    LET run == SoloOf(s, key)
        locs == IF t \in DOMAIN run.read THEN run.read[t] ELSE <<>>
    IN SoloPut(s, key,
               [run EXCEPT !.mongo =
                    InsertOne(run.mongo, TripDoc(t, msg, locs, SimplifyRoute(locs, tol)))])

SoloDel(s, key) ==
    LET run == SoloOf(s, key)
    IN SoloPut(s, key, [run EXCEPT !.redis = Del(run.redis, key)])

-----------------------------------------------------------------------------
(* main.rs: main's loop *)

\* RouteSimplifier::new(config.route_simplification.tolerance): any accepted
\* tolerance; the runs take one half of a grid unit.
ConfiguredTolerance == <<1, 2>>

\* A call of new or set_tolerance: its argument and what it returned.
CallOutcome(call, arg, res) == [call |-> call, arg |-> arg, result |-> res]

NoCall == CallOutcome("none", <<0, 1>>, "none")

NoStatsArgs == [original |-> <<>>, simplified |-> <<>>, original_count |-> 0]

NoStats == [of |-> "none"]

Init ==
    /\ mainPc = "poll"
    /\ pending = NoPayload
    /\ exitCause = "none"
    /\ tasks = <<>>
    /\ redis = [k \in {} |-> <<>>]
    /\ mongo = <<>>
    /\ overlapped = FALSE
    /\ solo = <<>>
    /\ locations = <<>>
    /\ tolerance = ConfiguredTolerance
    /\ simPc = "idle"
    /\ result = <<>>
    /\ outcome = CallOutcome("new", ConfiguredTolerance, "Ok")
    /\ statsArgs = NoStatsArgs
    /\ stats = NoStats
    /\ events = <<>>
    /\ keys = <<>>
    /\ anchor = 0
    /\ trail = <<>>

\* The mutant makes the loop join the tasks before it polls again.
MayPollAfterJoin == mainPc = "poll" /\ \A t \in 1..Len(tasks) : ~InFlight(t)

\* eventloop.poll().await is reached whenever the loop is at its head.
MayPoll == mainPc = "poll"

\* eventloop.poll() returns Event::Incoming(Packet::Publish(publish))
PollPublish(p) ==
    /\ MayPoll
    /\ Len(tasks) < MaxMsgs
    /\ pending' = p
    /\ mainPc' = "connect"
    /\ UNCHANGED <<exitCause, tasks, redis, mongo, overlapped, solo>>
    /\ UNCHANGED harnessVars

\* eventloop.poll() returns any other event
PollOther ==
    /\ MayPoll
    /\ mainPc' = "other"
    /\ UNCHANGED <<pending, exitCause, tasks, redis, mongo, overlapped, solo>>
    /\ UNCHANGED harnessVars

\* other => info!("MQTT event: {:?}", other), and the loop goes round
LogOther ==
    /\ mainPc = "other"
    /\ mainPc' = "poll"
    /\ UNCHANGED <<pending, exitCause, tasks, redis, mongo, overlapped, solo>>
    /\ UNCHANGED harnessVars

\* main has returned: the runtime is dropped and with it every task that has
\* not finished, at whichever await it stands.
CancelAll(ts) ==
    [t \in 1..Len(ts) |->
        IF ts[t].pc \in Terminal THEN ts[t] ELSE [ts[t] EXCEPT !.pc = "cancelled"]]

\* eventloop.poll().await? returns the connection error out of main
PollError ==
    /\ MayPoll
    /\ mainPc' = "exited"
    /\ exitCause' = "poll"
    /\ tasks' = CancelAll(tasks)
    /\ UNCHANGED <<pending, redis, mongo, overlapped, solo>>
    /\ UNCHANGED harnessVars

\* get_async_connection succeeded: clone the handles and tokio::spawn
ConnectOk ==
    /\ mainPc = "connect"
    /\ tasks' = Append(tasks, NewTask(pending))
    /\ overlapped' = (overlapped \/ \E t \in 1..Len(tasks) : InFlight(t))
    /\ pending' = NoPayload
    /\ mainPc' = "poll"
    /\ UNCHANGED <<exitCause, redis, mongo, solo>>
    /\ UNCHANGED harnessVars

\* redis_client.get_async_connection().await? returns the error out of main
ConnectFail ==
    /\ mainPc = "connect"
    /\ mainPc' = "exited"
    /\ exitCause' = "get_async_connection"
    /\ pending' = NoPayload
    /\ tasks' = CancelAll(tasks)
    /\ UNCHANGED <<redis, mongo, overlapped, solo>>
    /\ UNCHANGED harnessVars

-----------------------------------------------------------------------------
(* main.rs: process_message, one action per await and outcome *)

TaskFrame == UNCHANGED <<mainPc, pending, exitCause, overlapped>>
                /\ UNCHANGED harnessVars

\* serde_json::from_slice(payload)? and the key
DecodeStep(t) ==
    /\ InFlight(t) /\ tasks[t].pc = "decode"
    /\ LET task == tasks[t]
           msg == Decode(task.payload)
       IN tasks' = [tasks EXCEPT ![t] =
                       IF DecodeOk(task.payload)
                       THEN [task EXCEPT !.msg = msg,
                                         !.key = KeyOf(msg),
                                         !.pc = IF msg.status = "InRoute"
                                                THEN "rpush" ELSE "lrange"]
                       ELSE Fail(task, "decode")]
    /\ UNCHANGED <<redis, mongo, solo>>
    /\ TaskFrame

\* BusStatus::InRoute: rpush succeeded
RpushOk(t) ==
    /\ InFlight(t) /\ tasks[t].pc = "rpush"
    /\ redis' = Rpush(redis, tasks[t].key,
                      LocationToJson(tasks[t].msg.driver_location))
    /\ tasks' = Disturb([tasks EXCEPT ![t] = [Issue(tasks[t], "rpush", TRUE) EXCEPT !.pc = "ok"]],
                        t, tasks[t].key)
    /\ solo' = SoloRpush(solo, tasks[t].key,
                         LocationToJson(tasks[t].msg.driver_location))
    /\ UNCHANGED mongo
    /\ TaskFrame

RpushFail(t) ==
    /\ InFlight(t) /\ tasks[t].pc = "rpush"
    /\ tasks' = [tasks EXCEPT ![t] = Fail(Issue(@, "rpush", FALSE), "rpush")]
    /\ UNCHANGED <<redis, mongo, solo>>
    /\ TaskFrame

\* The mutant goes on to the insert with the empty list.
AfterLrangeNoEarlyReturn(task, pointsJson) ==
    [Issue(task, "lrange", TRUE) EXCEPT
        !.locations = ParseAll(pointsJson),
        !.pc = "insert_one"]

\* if points_json.is_empty() { return Ok(()) }, else every element is parsed
\* into locations
AfterLrange(task, pointsJson) ==
    IF pointsJson = <<>>
    THEN [Issue(task, "lrange", TRUE) EXCEPT !.pc = "ok"]
    ELSE [Issue(task, "lrange", TRUE) EXCEPT
            !.locations = ParseAll(pointsJson),
            !.pc = "insert_one"]

\* BusStatus::Finished: lrange succeeded
LrangeOk(t) ==
    /\ InFlight(t) /\ tasks[t].pc = "lrange"
    /\ tasks' = [tasks EXCEPT ![t] = AfterLrange(tasks[t], Lrange(redis, tasks[t].key))]
    /\ solo' = SoloLrange(solo, t, tasks[t].key)
    /\ UNCHANGED <<redis, mongo>>
    /\ TaskFrame

LrangeFail(t) ==
    /\ InFlight(t) /\ tasks[t].pc = "lrange"
    /\ tasks' = [tasks EXCEPT ![t] = Fail(Issue(@, "lrange", FALSE), "lrange")]
    /\ UNCHANGED <<redis, mongo, solo>>
    /\ TaskFrame

\* simplify_route, the doc! and insert_one succeeded
InsertOk(t) ==
    /\ InFlight(t) /\ tasks[t].pc = "insert_one"
    /\ mongo' = InsertOne(mongo,
                          TripDoc(t, tasks[t].msg, tasks[t].locations,
                                  SimplifyRoute(tasks[t].locations, tolerance)))
    /\ tasks' = [tasks EXCEPT ![t] = [Issue(tasks[t], "insert_one", TRUE) EXCEPT !.pc = "del"]]
    /\ solo' = SoloInsert(solo, t, tasks[t].key, tasks[t].msg, tolerance)
    /\ UNCHANGED redis
    /\ TaskFrame

\* The mutant logs the failed insert and goes on to the delete.
AfterInsertFailDeletes(task) == [task EXCEPT !.pc = "del"]

\* trips_collection.insert_one(trip_doc, None).await? returns the error
AfterInsertFail(task) == Fail(task, "insert_one")

InsertFail(t) ==
    /\ InFlight(t) /\ tasks[t].pc = "insert_one"
    /\ tasks' = [tasks EXCEPT ![t] = AfterInsertFail(Issue(@, "insert_one", FALSE))]
    /\ UNCHANGED <<redis, mongo, solo>>
    /\ TaskFrame

\* del succeeded
DelOk(t) ==
    /\ InFlight(t) /\ tasks[t].pc = "del"
    /\ redis' = Del(redis, tasks[t].key)
    /\ tasks' = LET done == [tasks EXCEPT ![t] = [Issue(tasks[t], "del", TRUE) EXCEPT !.pc = "ok"]]
                IN IF tasks[t].key \in DOMAIN redis
                   THEN Disturb(done, t, tasks[t].key)
                   ELSE done
    /\ solo' = SoloDel(solo, tasks[t].key)
    /\ UNCHANGED mongo
    /\ TaskFrame

\* The mutant logs the failed delete and returns Ok(()).
AfterDelFailIgnored(task) == [task EXCEPT !.pc = "ok"]

\* redis_conn.del(&key).await? returns the error
AfterDelFail(task) == Fail(task, "del")

DelFail(t) ==
    /\ InFlight(t) /\ tasks[t].pc = "del"
    /\ tasks' = [tasks EXCEPT ![t] = AfterDelFail(Issue(@, "del", FALSE))]
    /\ UNCHANGED <<redis, mongo, solo>>
    /\ TaskFrame

TaskStep ==
    \/ \E t \in 1..Len(tasks) : DecodeStep(t)
    \/ \E t \in 1..Len(tasks) : RpushOk(t)
    \/ \E t \in 1..Len(tasks) : RpushFail(t)
    \/ \E t \in 1..Len(tasks) : LrangeOk(t)
    \/ \E t \in 1..Len(tasks) : LrangeFail(t)
    \/ \E t \in 1..Len(tasks) : InsertOk(t)
    \/ \E t \in 1..Len(tasks) : InsertFail(t)
    \/ \E t \in 1..Len(tasks) : DelOk(t)
    \/ \E t \in 1..Len(tasks) : DelFail(t)

MainStep == PollOther \/ LogOther \/ PollError \/ ConnectOk \/ ConnectFail

Next ==
    \/ \E p \in TripPayloads : PollPublish(p)
    \/ MainStep
    \/ TaskStep

NextDecode ==
    \/ \E p \in DecodePayloads : PollPublish(p)
    \/ MainStep
    \/ TaskStep

\* The service under the traffic of two trips.
Spec == Init /\ [][Next]_vars

\* The service under packets the decoder has to judge.
SpecDecode == Init /\ [][NextDecode]_vars

\* The fast store outlives the service: a list an earlier run has left under
\* d1:r1, three points along one meridian.
Preloaded ==
    KeyOf([driver_id |-> D1, current_route_id |-> R1])
        :> <<LocationToJson(Location(0, 0)), LocationToJson(Location(1, 0)),
             LocationToJson(Location(2, 0))>>

\* The service started over the list the earlier run has left.
InitResume ==
    /\ mainPc = "poll"
    /\ pending = NoPayload
    /\ exitCause = "none"
    /\ tasks = <<>>
    /\ redis = Preloaded
    /\ mongo = <<>>
    /\ overlapped = FALSE
    /\ solo = [k \in DOMAIN Preloaded |-> [NoSolo EXCEPT !.redis = Preloaded]]
    /\ locations = <<>>
    /\ tolerance = ConfiguredTolerance
    /\ simPc = "idle"
    /\ result = <<>>
    /\ outcome = CallOutcome("new", ConfiguredTolerance, "Ok")
    /\ statsArgs = NoStatsArgs
    /\ stats = NoStats
    /\ events = <<>>
    /\ keys = <<>>
    /\ anchor = 0
    /\ trail = <<>>

\* The traffic that ends the trip the earlier run has left.
ResumePayloads == {InRoutePayload(D1, R1, 1, 1), FinishedPayload(D1, R1)}

NextResume ==
    \/ \E p \in ResumePayloads : PollPublish(p)
    \/ MainStep
    \/ TaskStep

SpecResume == InitResume /\ [][NextResume]_vars

-----------------------------------------------------------------------------
(* The simplifier on its own: one call of either method on a drawn input *)

\* Latitudes 0..GridMax, longitudes 0 and 1.
GridLocations == {Location(lat, lon) : lat \in 0..GridMax, lon \in {0, 1}}

\* create_test_locations(): (0,0), (0.5,0.5), (1,1), (1.5,1.5), (2,2), in
\* units of half a degree.
TestLocations ==
    <<Location(0, 0), Location(1, 1), Location(2, 2), Location(3, 3),
      Location(4, 4)>>

\* RouteSimplifier::new(0.1) of test_straight_line_simplification, in the
\* units of TestLocations.
TestTolerance == <<1, 5>>

Inputs == UNION {[1..n -> GridLocations] : n \in 0..MaxLen} \cup {TestLocations}

\* Tolerances RouteSimplifier::new accepts: a tenth, a fifth, a half and one
\* grid unit.
Tolerances == {<<1, 10>>, TestTolerance, <<1, 2>>, <<1, 1>>}

InitSimplify ==
    /\ mainPc = "poll"
    /\ pending = NoPayload
    /\ exitCause = "none"
    /\ tasks = <<>>
    /\ redis = [k \in {} |-> <<>>]
    /\ mongo = <<>>
    /\ overlapped = FALSE
    /\ solo = <<>>
    /\ locations \in Inputs
    /\ tolerance \in Tolerances
    /\ simPc = "input"
    /\ result = <<>>
    /\ outcome = CallOutcome("new", tolerance, "Ok")
    /\ statsArgs = NoStatsArgs
    /\ stats = NoStats
    /\ events = <<>>
    /\ keys = <<>>
    /\ anchor = 0
    /\ trail = <<>>

\* simplifier.simplify_route(&locations)
CallSimplifyRoute ==
    /\ simPc = "input"
    /\ result' = SimplifyRoute(locations, tolerance)
    /\ simPc' = "library"
    /\ UNCHANGED <<locations, tolerance, outcome>>
    /\ UNCHANGED <<pipelineVars, utilityVars, loopVars>>

\* simplifier.simplify_route_custom(&locations)
CallSimplifyRouteCustom ==
    /\ simPc = "input"
    /\ result' = SimplifyRouteCustom(locations, tolerance)
    /\ simPc' = "custom"
    /\ UNCHANGED <<locations, tolerance, outcome>>
    /\ UNCHANGED <<pipelineVars, utilityVars, loopVars>>

NextSimplify == CallSimplifyRoute \/ CallSimplifyRouteCustom

SpecSimplify == InitSimplify /\ [][NextSimplify]_vars

-----------------------------------------------------------------------------
(* simplify_route_custom, one iteration of its while loop at a time *)

\* Entry: the two early returns, or the push of locations[0] and i = 0.
CustomStart ==
    /\ simPc = "input"
    /\ IF locations = <<>> \/ Len(locations) <= 2
       THEN /\ result' = locations
            /\ simPc' = "custom"
            /\ UNCHANGED loopVars
       ELSE /\ result' = <<locations[1]>>
            /\ anchor' = 1
            /\ trail' = <<1>>
            /\ simPc' = "loop"
    /\ UNCHANGED <<locations, tolerance, outcome>>
    /\ UNCHANGED <<pipelineVars, utilityVars>>

\* One iteration: the look-ahead, the push of locations[farthest_index] and
\* i = farthest_index.
CustomRound ==
    /\ simPc = "loop"
    /\ anchor < Len(locations)
    /\ LET farthest_index == RoundFarthest(locations, anchor, tolerance)
       IN /\ result' = Append(result, locations[farthest_index])
          /\ anchor' = farthest_index
          /\ trail' = Append(trail, farthest_index)
    /\ UNCHANGED <<locations, tolerance, simPc, outcome>>
    /\ UNCHANGED <<pipelineVars, utilityVars>>

\* Loop exit: the last point is pushed unless it is the last one pushed,
\* and the Vec is returned.
CustomFinish ==
    /\ simPc = "loop"
    /\ ~(anchor < Len(locations))
    /\ result' = IF result[Len(result)] # locations[Len(locations)]
                 THEN Append(result, locations[Len(locations)])
                 ELSE result
    /\ simPc' = "custom"
    /\ UNCHANGED <<locations, tolerance, outcome>>
    /\ UNCHANGED loopVars
    /\ UNCHANGED <<pipelineVars, utilityVars>>

NextCustomLoop == CustomStart \/ CustomRound \/ CustomFinish

SpecCustomLoop == InitSimplify /\ [][NextCustomLoop]_vars

Returned == simPc \in {"library", "custom"}

\* C9: for an input of 0, 1 or 2 points, simplify_route and
\* simplify_route_custom return the input itself, element by element.
C9_ShortInputUnchanged ==
    (Returned /\ Len(locations) <= 2) => result = locations

C9_Witness ==
    /\ simPc = "custom"
    /\ Len(locations) = 2
    /\ locations[1] # locations[2]
    /\ result = locations

\* C10: for a non-empty input, the output of either method is non-empty, starts
\* with the first input point and ends with the last input point.
C10_EndpointsKept ==
    (Returned /\ locations # <<>>) =>
        /\ result # <<>>
        /\ result[1] = locations[1]
        /\ result[Len(result)] = locations[Len(locations)]

C10_Witness ==
    /\ simPc = "library"
    /\ Len(locations) >= 3
    /\ Len(result) < Len(locations)
    /\ result[1] = locations[1]
    /\ result[1] # result[Len(result)]

-----------------------------------------------------------------------------
(* The simplifier's tolerance: new, set_tolerance and calls in between *)

\* Tolerances a caller may pass: negative, zero and positive, in units and
\* in tenths.
ToleranceArgs == {<<n, d>> : n \in (0 - MaxTol)..MaxTol, d \in {1, 10}}

\* No simplifier exists yet; tolerance holds no value of any simplifier.
InitTolerance ==
    /\ mainPc = "poll"
    /\ pending = NoPayload
    /\ exitCause = "none"
    /\ tasks = <<>>
    /\ redis = [k \in {} |-> <<>>]
    /\ mongo = <<>>
    /\ overlapped = FALSE
    /\ solo = <<>>
    /\ locations = TestLocations
    /\ tolerance = <<0, 1>>
    /\ simPc = "new"
    /\ result = <<>>
    /\ outcome = NoCall
    /\ statsArgs = NoStatsArgs
    /\ stats = NoStats
    /\ events = <<>>
    /\ keys = <<>>
    /\ anchor = 0
    /\ trail = <<>>

\* RouteSimplifier::new(t)
New(t) ==
    /\ simPc = "new"
    /\ IF t[1] <= 0
       THEN /\ outcome' = CallOutcome("new", t, "ValidationError")
            /\ UNCHANGED <<tolerance, simPc>>
       ELSE /\ outcome' = CallOutcome("new", t, "Ok")
            /\ tolerance' = t
            /\ simPc' = "input"
    /\ UNCHANGED <<locations, result>>
    /\ UNCHANGED <<pipelineVars, utilityVars, loopVars>>

\* The mutant assigns before it validates.
AfterSetToleranceStoresFirst(current, t) == t

\* self.tolerance after set_tolerance(t)
AfterSetTolerance(current, t) == IF t[1] <= 0 THEN current ELSE t

\* simplifier.set_tolerance(t)
SetTolerance(t) ==
    /\ simPc = "input"
    /\ outcome' = CallOutcome("set_tolerance", t,
                              IF t[1] <= 0 THEN "ValidationError" ELSE "Ok")
    /\ tolerance' = AfterSetTolerance(tolerance, t)
    /\ UNCHANGED <<locations, simPc, result>>
    /\ UNCHANGED <<pipelineVars, utilityVars, loopVars>>

NextTolerance ==
    \/ \E t \in ToleranceArgs : New(t)
    \/ \E t \in ToleranceArgs : SetTolerance(t)
    \/ CallSimplifyRoute
    \/ CallSimplifyRouteCustom

SpecTolerance == InitTolerance /\ [][NextTolerance]_vars

-----------------------------------------------------------------------------
(* The compression ratio: calculate_route_stats and TripDocument::new *)

\* The mutant divides whatever the length of original.
CalculateRouteStatsUnguarded(original, simplified) ==
    [of |-> "RouteStats",
     original_points |-> Len(original),
     simplified_points |-> Len(simplified),
     compression_ratio |-> <<Len(simplified), Len(original)>>]

\* calculate_route_stats(original, simplified); original_length,
\* simplified_length and length_difference are sums of square roots and are
\* left out.  The ratio is the fraction <<numerator, denominator>>.
CalculateRouteStats(original, simplified) ==
    [of |-> "RouteStats",
     original_points |-> Len(original),
     simplified_points |-> Len(simplified),
     compression_ratio |-> IF original = <<>> THEN <<0, 1>>
                           ELSE <<Len(simplified), Len(original)>>]

\* TripDocument::new(driver_id, current_route_id, simplified_route, timestamp,
\* original_count)
TripDocumentNew(driver_id, current_route_id, simplified_route, timestamp, original_count) ==
    [of |-> "TripDocument",
     driver_id |-> driver_id,
     current_route_id |-> current_route_id,
     simplified_route |-> simplified_route,
     timestamp |-> timestamp,
     original_points_count |-> original_count,
     simplified_points_count |-> Len(simplified_route),
     compression_ratio |-> IF original_count > 0
                           THEN <<Len(simplified_route), original_count>>
                           ELSE <<0, 1>>]

\* A route of n points along the diagonal; the route of 5 is
\* create_test_locations().
RoutePoints(n) == [i \in 1..n |-> Location(i - 1, i - 1)]

\* The simplified route of test_route_stats: (0,0) and (2,2).
TestSimplified == <<Location(0, 0), Location(4, 4)>>

StatsArgs ==
    [original : {RoutePoints(n) : n \in 0..MaxCount},
     simplified : {RoutePoints(n) : n \in 0..MaxCount} \cup {TestSimplified},
     original_count : 0..MaxCount]

InitStats ==
    /\ mainPc = "poll"
    /\ pending = NoPayload
    /\ exitCause = "none"
    /\ tasks = <<>>
    /\ redis = [k \in {} |-> <<>>]
    /\ mongo = <<>>
    /\ overlapped = FALSE
    /\ solo = <<>>
    /\ locations = <<>>
    /\ tolerance = ConfiguredTolerance
    /\ simPc = "stats"
    /\ result = <<>>
    /\ outcome = NoCall
    /\ statsArgs \in StatsArgs
    /\ stats = NoStats
    /\ events = <<>>
    /\ keys = <<>>
    /\ anchor = 0
    /\ trail = <<>>

\* calculate_route_stats(&original, &simplified)
CallCalculateRouteStats ==
    /\ simPc = "stats"
    /\ stats' = CalculateRouteStats(statsArgs.original, statsArgs.simplified)
    /\ simPc' = "route_stats"
    /\ UNCHANGED <<locations, tolerance, result, outcome, statsArgs, events, keys>>
    /\ UNCHANGED <<pipelineVars, loopVars>>

\* TripDocument::new(.., simplified, timestamp, original_count)
CallTripDocumentNew ==
    /\ simPc = "stats"
    /\ stats' = TripDocumentNew(D1, R1, statsArgs.simplified, 7,
                                statsArgs.original_count)
    /\ simPc' = "trip_document"
    /\ UNCHANGED <<locations, tolerance, result, outcome, statsArgs, events, keys>>
    /\ UNCHANGED <<pipelineVars, loopVars>>

NextStats == CallCalculateRouteStats \/ CallTripDocumentNew

SpecStats == InitStats /\ [][NextStats]_vars

\* ratio is simplified / original, and 0 undivided when original is 0.
RatioIs(ratio, simplified, original) ==
    /\ original = 0 => ratio = <<0, 1>>
    /\ original > 0 => ratio[2] # 0 /\ ratio[1] * original = simplified * ratio[2]
    /\ (original = 5 /\ simplified = 2) => ratio[1] * 10 = 4 * ratio[2]

\* C15: calculate_route_stats and TripDocument::new report the counts they
\* are given and the ratio simplified / original, which is 0.4 for 5 and 2
\* and is 0, with no division, when the original count is 0.
C15_CompressionRatio ==
    /\ simPc = "route_stats" =>
            /\ stats.original_points = Len(statsArgs.original)
            /\ stats.simplified_points = Len(statsArgs.simplified)
            /\ RatioIs(stats.compression_ratio, Len(statsArgs.simplified),
                       Len(statsArgs.original))
    /\ simPc = "trip_document" =>
            /\ stats.original_points_count = statsArgs.original_count
            /\ stats.simplified_points_count = Len(statsArgs.simplified)
            /\ RatioIs(stats.compression_ratio, Len(statsArgs.simplified),
                       statsArgs.original_count)

C15_Witness ==
    /\ simPc = "route_stats"
    /\ statsArgs.original = TestLocations
    /\ statsArgs.simplified = TestSimplified
    /\ stats.original_points = 5
    /\ stats.simplified_points = 2
    /\ stats.compression_ratio = <<2, 5>>

-----------------------------------------------------------------------------
(* The trip key of two decoded messages *)

\* Identifiers as serde accepts them: any string, the empty one and those
\* with the separator in them included.
Ids == UNION {[1..n -> {"a", ":"}] : n \in 0..MaxIdLen}

\* An IN_PROGRESS and a FINISHED message of any two (driver, route) pairs.
EventPairs ==
    {<<[driver_id |-> d1, driver_location |-> Location(0, 0), timestamp |-> 7,
        current_route_id |-> r1, status |-> "InRoute"],
       [driver_id |-> d2, driver_location |-> Location(1, 1), timestamp |-> 8,
        current_route_id |-> r2, status |-> "Finished"]>> :
        d1 \in Ids, r1 \in Ids, d2 \in Ids, r2 \in Ids}

InitKeys ==
    /\ mainPc = "poll"
    /\ pending = NoPayload
    /\ exitCause = "none"
    /\ tasks = <<>>
    /\ redis = [k \in {} |-> <<>>]
    /\ mongo = <<>>
    /\ overlapped = FALSE
    /\ solo = <<>>
    /\ locations = <<>>
    /\ tolerance = ConfiguredTolerance
    /\ simPc = "keys"
    /\ result = <<>>
    /\ outcome = NoCall
    /\ statsArgs = NoStatsArgs
    /\ stats = NoStats
    /\ events \in EventPairs
    /\ keys = <<>>
    /\ anchor = 0
    /\ trail = <<>>

\* let key = format!(..) of process_message, for each of the two messages
DeriveKeys ==
    /\ simPc = "keys"
    /\ keys' = <<KeyOf(events[1]), KeyOf(events[2])>>
    /\ simPc' = "derived"
    /\ UNCHANGED <<locations, tolerance, result, outcome, statsArgs, stats, events>>
    /\ UNCHANGED <<pipelineVars, loopVars>>

NextKeys == DeriveKeys

SpecKeys == InitKeys /\ [][NextKeys]_vars

HasSeparator(id) == \E i \in 1..Len(id) : id[i] = ":"

PairOf(msg) == <<msg.driver_id, msg.current_route_id>>

\* C17: two messages of the same (driver, route) pair get the same key
\* whatever else they carry, and two messages of different pairs get
\* different keys when none of the identifiers holds the separator.
C17_KeyDependsOnThePairOnly ==
    simPc = "derived" =>
        /\ PairOf(events[1]) = PairOf(events[2]) => keys[1] = keys[2]
        /\ (/\ PairOf(events[1]) # PairOf(events[2])
            /\ \A m \in {events[1], events[2]} :
                    ~HasSeparator(m.driver_id) /\ ~HasSeparator(m.current_route_id))
           => keys[1] # keys[2]

C17_Witness ==
    /\ simPc = "derived"
    /\ PairOf(events[1]) = <<<<"a">>, <<>>>>
    /\ PairOf(events[2]) = <<<<>>, <<"a">>>>
    /\ keys = <<<<"a", ":">>, <<":", "a">>>>

\* C11: the sequence simplify_route returns is never longer than its input.
C11_NonExpansion ==
    simPc = "library" => Len(result) <= Len(locations)

C11_Witness ==
    /\ simPc = "library"
    /\ Len(locations) = 4
    /\ Len(result) = 3
    /\ result[2] \notin {result[1], result[3]}

\* Twice the signed area of the triangle a, b, p, and the projection of a..p
\* on a..b.
Cross(p, a, b) ==
    (b.longitude - a.longitude) * (p.latitude - a.latitude)
      - (b.latitude - a.latitude) * (p.longitude - a.longitude)

Dot(p, a, b) ==
    (p.longitude - a.longitude) * (b.longitude - a.longitude)
      + (p.latitude - a.latitude) * (b.latitude - a.latitude)

\* Every point lies on the straight line through the first and the last.
AllOnLine(locs) ==
    /\ locs[1] # locs[Len(locs)]
    /\ \A i \in 1..Len(locs) : Cross(locs[i], locs[1], locs[Len(locs)]) = 0

\* Every point lies on the segment from the first to the last.
AllOnSegment(locs) ==
    \A i \in 1..Len(locs) :
        IF locs[1] = locs[Len(locs)] THEN locs[i] = locs[1]
        ELSE /\ Cross(locs[i], locs[1], locs[Len(locs)]) = 0
             /\ Dot(locs[i], locs[1], locs[Len(locs)]) >= 0
             /\ Dot(locs[i], locs[1], locs[Len(locs)])
                    <= DistanceSq(locs[1], locs[Len(locs)])

RECURSIVE Embeds(_, _, _, _)
Embeds(out, inp, i, j) ==
    IF i > Len(out) THEN TRUE
    ELSE IF j > Len(inp) THEN FALSE
    ELSE IF out[i] = inp[j] THEN Embeds(out, inp, i + 1, j + 1)
    ELSE Embeds(out, inp, i, j + 1)

\* C13: the output of simplify_route_custom is a subsequence of its input:
\* its points are input points taken at strictly increasing indices, so none
\* is made up, repeated or reordered, and it is no longer than the input.
C13_CustomIsSubsequence ==
    simPc = "custom" =>
        /\ Embeds(result, locations, 1, 1)
        /\ Len(result) <= Len(locations)

C13_Witness ==
    /\ simPc = "custom"
    /\ Len(locations) = 4
    /\ Len(result) = 3
    /\ result[2] = locations[3]
    /\ locations[2] \notin {locations[1], locations[3], locations[4]}

-----------------------------------------------------------------------------
(* Claims about the pipeline *)

TaskIds == 1..Len(tasks)

\* Task t has made the store call op, with outcome ok.
HasOp(t, op, ok) == \E i \in 1..Len(tasks[t].ops) : tasks[t].ops[i] = Call(op, ok)

\* The documents task t has inserted.
DocsOf(t) == {i \in 1..Len(mongo) : mongo[i]._id = t}

\* What a payload says, read off the payload itself.
SaysStatus(p, st) ==
    /\ p.json /\ p.driverId.t = "str" /\ p.currentRouteId.t = "str"
    /\ p.driverLocation.t = "obj" /\ p.timestamp.t = "num"
    /\ p.status = JStr(<<st>>)

SaysKey(p) == p.driverId.s \o <<":">> \o p.currentRouteId.s

PointJson(p) ==
    <<"latitude", p.driverLocation.o.latitude,
      "longitude", p.driverLocation.o.longitude>>

TripKeys == {SaysKey(p) : p \in {q \in TripPayloads : q.json}}

IsFor(task, k) ==
    /\ SaysStatus(task.payload, "in_route") \/ SaysStatus(task.payload, "finished")
    /\ SaysKey(task.payload) = k

\* The tasks of key k, in the order their messages were received.
TasksFor(k) == SelectSeq(tasks, LAMBDA task : IsFor(task, k))

\* Key k has had n >= 1 IN_PROGRESS events and then one FINISHED event, each
\* processed to its end before the next message was taken up.
SequentialTrip(k) ==
    LET ts == TasksFor(k)
        n == Len(ts) - 1
    IN /\ ~overlapped
       /\ n >= 1
       /\ SaysStatus(ts[n + 1].payload, "finished")
       /\ \A i \in 1..n : SaysStatus(ts[i].payload, "in_route") /\ ts[i].pc = "ok"

DocsForKey(k) ==
    {i \in 1..Len(mongo) : mongo[i].driverId \o <<":">> \o mongo[i].currentRouteId = k}

\* C1: after n >= 1 IN_PROGRESS events of one key and then its FINISHED event,
\* processed one after another without failure, the list holds the n points in
\* processing order just before the finalize; after it the key is absent and
\* exactly one document exists for the trip, with originalPointsCount = n.
C1_SequentialTripIsFinalized ==
    \A k \in TripKeys :
        SequentialTrip(k) =>
            LET ts == TasksFor(k)
                n == Len(ts) - 1
                fin == ts[n + 1]
            IN /\ fin.pc \in {"decode", "lrange"} =>
                    Lrange(redis, k) = [i \in 1..n |-> PointJson(ts[i].payload)]
               /\ fin.pc = "ok" =>
                    /\ k \notin DOMAIN redis
                    /\ Cardinality(DocsForKey(k)) = 1
                    /\ \A i \in DocsForKey(k) : mongo[i].originalPointsCount = n

C1_Witness ==
    /\ Len(tasks) = 3
    /\ ~overlapped
    /\ tasks[1].payload = InRoutePayload(D1, R1, 1, 1)
    /\ tasks[2].payload = InRoutePayload(D1, R1, 0, 0)
    /\ tasks[3].payload = FinishedPayload(D1, R1)
    /\ \A t \in 1..3 : tasks[t].pc = "ok"
    /\ redis = <<>>
    /\ Len(mongo) = 1
    /\ mongo[1].originalPointsCount = 2

\* C2: a FINISHED task whose range read returns the empty list ends with
\* Ok(()), having issued the range read and nothing else: no insert, no
\* delete, no document of its own.
C2_EmptyFinalizeIsNoOp ==
    \A t \in TaskIds :
        (HasOp(t, "lrange", TRUE) /\ tasks[t].locations = <<>>) =>
            /\ tasks[t].pc = "ok"
            /\ tasks[t].error = "none"
            /\ tasks[t].ops = <<Call("lrange", TRUE)>>
            /\ DocsOf(t) = {}

C2_Witness ==
    \E t \in TaskIds :
        /\ tasks[t].payload = FinishedPayload(D1, R1)
        /\ tasks[t].pc = "ok"
        /\ tasks[t].ops = <<Call("lrange", TRUE)>>
        /\ redis = <<>>
        /\ mongo = <<>>

\* The insert of task t was issued and failed.
InsertFailed(t) == HasOp(t, "insert_one", FALSE)

ReadList(t) == [i \in 1..Len(tasks[t].locations) |-> LocationToJson(tasks[t].locations[i])]

\* C3: a task whose insert failed has ended with that error, issues no delete
\* and has no document; while no other task changes the key its list is the list that was
\* read; and a FINISHED task of the same key that reads the list so left
\* persists a document with the same original point count and, once its delete
\* is done, the key is absent.
C3_FailedInsertKeepsTheList ==
    \A t \in TaskIds :
        InsertFailed(t) =>
            /\ tasks[t].pc = "err" /\ tasks[t].error = "insert_one"
            /\ ~HasOp(t, "del", TRUE) /\ ~HasOp(t, "del", FALSE)
            /\ DocsOf(t) = {}
            /\ ~tasks[t].disturbed => Lrange(redis, tasks[t].key) = ReadList(t)
            /\ \A u \in TaskIds :
                (u > t /\ tasks[u].key = tasks[t].key /\ ~tasks[u].disturbed) =>
                    /\ (tasks[u].pc = "del" /\ ~tasks[t].disturbed) =>
                            \E i \in DocsOf(u) :
                                mongo[i].originalPointsCount = Len(tasks[t].locations)
                    /\ (tasks[u].pc = "ok" /\ HasOp(u, "del", TRUE)) =>
                            /\ tasks[t].key \notin DOMAIN redis
                            /\ DocsOf(u) # {}

C3_Witness ==
    /\ Len(tasks) = 3
    /\ tasks[1].payload = InRoutePayload(D1, R1, 1, 1)
    /\ tasks[2].payload = FinishedPayload(D1, R1)
    /\ tasks[3].payload = FinishedPayload(D1, R1)
    /\ tasks[2].error = "insert_one"
    /\ tasks[3].pc = "ok"
    /\ ~tasks[3].disturbed
    /\ \E i \in DocsOf(3) : mongo[i].originalPointsCount = 1
    /\ Len(mongo) = 1
    /\ redis = <<>>

\* C4 as claimed: no failure met for one message ends the intake loop or
\* another task; main ends only when the broker's event loop fails.
C4_FailureEndsOnlyItsMessage ==
    /\ exitCause # "get_async_connection"
    /\ \A t \in TaskIds : tasks[t].pc = "cancelled" => exitCause = "poll"

\* C5: the loop never waits for a task: at its head it can take the next
\* Publish, and holding one it can spawn, whatever the spawned tasks are doing.
C5_IntakeNeverWaits ==
    /\ (mainPc = "poll" /\ Len(tasks) < MaxMsgs) =>
            ENABLED (\E p \in TripPayloads : PollPublish(p))
    /\ mainPc = "connect" => ENABLED ConnectOk

C5_Witness ==
    /\ Len(tasks) = MaxMsgs
    /\ \A t \in TaskIds : tasks[t].pc \in {"rpush", "lrange"}

\* C6: an IN_PROGRESS task that appends after a FINISHED task of its key has
\* done its delete leaves a non-empty list under the key, ending with its
\* point, and the documents stay as they were, that task's document counting
\* the list it had read; when no other task has changed the key since that
\* read, the list left is the late point alone.
C6_AppendAfterDeleteOrphans ==
    [][\A a \in TaskIds, f \in TaskIds :
          (/\ tasks[f].key = tasks[a].key
           /\ tasks[f].pc = "ok" /\ HasOp(f, "del", TRUE)
           /\ tasks[a].pc = "rpush"
           /\ tasks'[a].pc = "ok")
          => /\ mongo' = mongo
             /\ \E i \in DocsOf(f) :
                    mongo[i].originalPointsCount = Len(tasks[f].locations)
             /\ Lrange(redis', tasks[a].key) # <<>>
             /\ LET list == Lrange(redis', tasks[a].key)
                IN list[Len(list)] = PointJson(tasks[a].payload)
             /\ ~tasks[f].disturbed =>
                    Lrange(redis', tasks[a].key) = <<PointJson(tasks[a].payload)>>]_vars

C6_Witness ==
    /\ Len(tasks) = 3
    /\ tasks[1].payload = InRoutePayload(D1, R1, 0, 0)
    /\ tasks[2].payload = FinishedPayload(D1, R1)
    /\ tasks[3].payload = InRoutePayload(D1, R1, 1, 1)
    /\ \A t \in 1..3 : tasks[t].pc = "ok"
    /\ overlapped
    /\ Len(mongo) = 1
    /\ mongo[1].originalPointsCount = 1
    /\ mongo[1].simplifiedRoute = <<PointDoc(Location(0, 0))>>
    /\ redis = (<<"d", "1", ":", "r", "1">> :> <<LocationToJson(Location(1, 1))>>)

\* A payload that is no JSON, lacks a required member, or names no status of
\* the enumeration.
Malformed(p) ==
    \/ ~p.json
    \/ \E m \in {p.driverId, p.driverLocation, p.timestamp, p.currentRouteId, p.status} :
            m.t = "absent"
    \/ p.status.s \notin {<<"in_route">>, <<"finished">>}

\* C7: a task whose payload is malformed ends with the decode error and never
\* issues a store operation; a payload that only carries an extra member is
\* not rejected.
C7_MalformedIsRejectedAtDecode ==
    \A t \in TaskIds :
        /\ Malformed(tasks[t].payload) =>
                /\ tasks[t].ops = <<>>
                /\ tasks[t].pc \in {"decode", "err", "cancelled"}
                /\ tasks[t].pc = "err" => tasks[t].error = "decode"
        /\ (tasks[t].payload.extra /\ ~Malformed(tasks[t].payload)) =>
                tasks[t].error # "decode"

C7_Witness ==
    \E t \in TaskIds, u \in TaskIds :
        /\ tasks[t].payload = BadStatusPayload
        /\ tasks[t].pc = "err" /\ tasks[t].error = "decode"
        /\ tasks[u].payload = ExtraFieldPayload
        /\ tasks[u].pc = "ok" /\ tasks[u].ops = <<Call("rpush", TRUE)>>
        /\ redis = (<<"d", "1", ":", "r", "1">> :> <<LocationToJson(Location(1, 0))>>)

\* C8 as claimed: a task that issues a store operation has a non-empty
\* driver id and a non-empty route id, a payload with an empty one being
\* rejected at decode.
C8_NoEmptyIdentifierIsDispatched ==
    \A t \in TaskIds :
        /\ tasks[t].pc \notin {"decode", "err", "cancelled"} =>
                tasks[t].msg.driver_id # <<>> /\ tasks[t].msg.current_route_id # <<>>
        /\ tasks[t].ops # <<>> =>
                tasks[t].payload.driverId.s # <<>> /\ tasks[t].payload.currentRouteId.s # <<>>

\* C16 as claimed: every document handed to insert_one carries, next to the
\* driver id, the route id, the simplified route, the timestamp and the two
\* counts, a compression ratio equal to the simplified count divided by the
\* original count.
C16_TripRecordCarriesTheRatio ==
    \A i \in 1..Len(mongo) :
        /\ {"driverId", "currentRouteId", "simplifiedRoute", "timestamp",
            "originalPointsCount", "simplifiedPointsCount",
            "compressionRatio"} \subseteq DOMAIN mongo[i]
        /\ RatioIs(mongo[i].compressionRatio, mongo[i].simplifiedPointsCount,
                   mongo[i].originalPointsCount)

\* C18: the step in which an IN_PROGRESS task's append succeeds makes the list
\* of its key the previous list followed by the task's point, equal points
\* already stored or not; every other key and the documents stay as they
\* were, and the append is the only store call the task has made.
C18_AppendGrowsTheListByOne ==
    [][\A a \in TaskIds :
          (tasks[a].pc = "rpush" /\ tasks'[a].pc = "ok") =>
            LET k == SaysKey(tasks[a].payload)
            IN /\ Lrange(redis', k) = Lrange(redis, k) \o <<PointJson(tasks[a].payload)>>
               /\ DOMAIN redis' = DOMAIN redis \cup {k}
               /\ \A j \in DOMAIN redis' \ {k} : redis'[j] = redis[j]
               /\ mongo' = mongo
               /\ tasks'[a].ops = <<Call("rpush", TRUE)>>
               /\ tasks'[a].error = "none"]_vars

C18_Witness ==
    /\ Len(tasks) = 3
    /\ tasks[1].payload = InRoutePayload(D1, R2, 0, 1)
    /\ tasks[2].payload = InRoutePayload(D1, R1, 0, 0)
    /\ tasks[3].payload = InRoutePayload(D1, R1, 0, 0)
    /\ \A t \in 1..3 : tasks[t].ops = <<Call("rpush", TRUE)>>
    /\ mongo = <<>>
    /\ Lrange(redis, <<"d", "1", ":", "r", "2">>) = <<LocationToJson(Location(0, 1))>>
    /\ Lrange(redis, <<"d", "1", ":", "r", "1">>)
            = <<LocationToJson(Location(0, 0)), LocationToJson(Location(0, 0))>>

\* C19: the store calls of a FINISHED task are, in this order and each at most
\* once, the range read, the insert and the delete: the insert only after a
\* range read that returned a non-empty list, the delete only after the insert
\* succeeded, and never an append.
C19_FinalizeOrder ==
    \A t \in TaskIds :
        SaysStatus(tasks[t].payload, "finished") =>
            LET ops == tasks[t].ops
            IN /\ Len(ops) <= 3
               /\ \A i \in 1..Len(ops) : ops[i].op # "rpush"
               /\ Len(ops) >= 1 => ops[1].op = "lrange"
               /\ Len(ops) >= 2 =>
                    /\ ops[2].op = "insert_one"
                    /\ ops[1].ok
                    /\ tasks[t].locations # <<>>
               /\ Len(ops) = 3 => ops[3].op = "del" /\ ops[2].ok

C19_Witness ==
    \E t \in TaskIds :
        /\ tasks[t].payload = FinishedPayload(D1, R2)
        /\ tasks[t].pc = "ok"
        /\ tasks[t].ops = <<Call("lrange", TRUE), Call("insert_one", TRUE),
                            Call("del", TRUE)>>
        /\ Len(tasks[t].locations) = 1

\* The list of task f's key holds, after the list f has read, points appended
\* since.
LateAppend(f) ==
    LET list == Lrange(redis, tasks[f].key)
        n == Len(tasks[f].locations)
    IN /\ Len(list) > n
       /\ SubSeq(list, 1, n) = ReadList(f)

\* Task f is the only FINISHED task of its key.
OnlyFinalizer(f) ==
    \A g \in TaskIds \ {f} :
        ~(SaysStatus(tasks[g].payload, "finished")
            /\ SaysKey(tasks[g].payload) = tasks[f].key)

\* C20: when points were appended to a key after a FINISHED task's range read
\* and before its delete, the delete removes them with the rest: the key is
\* absent, the task's document counts the list as read, which is shorter than
\* the list deleted, no document is added, and neither the task nor any other
\* reports an error; when the task is the only FINISHED task of the key, its
\* document is the only one of the key.
C20_LateAppendIsDeleted ==
    [][\A f \in TaskIds :
          (tasks[f].pc = "del" /\ tasks'[f].pc = "ok" /\ LateAppend(f)) =>
            /\ tasks[f].key \notin DOMAIN redis'
            /\ mongo' = mongo
            /\ \E i \in DocsOf(f) :
                    /\ mongo[i].originalPointsCount = Len(tasks[f].locations)
                    /\ mongo[i].originalPointsCount < Len(Lrange(redis, tasks[f].key))
            /\ OnlyFinalizer(f) => DocsForKey(tasks[f].key) = DocsOf(f)
            /\ Cardinality(DocsOf(f)) = 1
            /\ tasks'[f].error = "none"
            /\ \A a \in TaskIds \ {f} :
                    tasks'[a].pc = tasks[a].pc /\ tasks'[a].error = tasks[a].error]_vars

C20_Witness ==
    /\ Len(tasks) = 3
    /\ tasks[1].payload = InRoutePayload(D1, R1, 0, 0)
    /\ tasks[2].payload = FinishedPayload(D1, R1)
    /\ tasks[3].payload = InRoutePayload(D1, R1, 1, 1)
    /\ \A t \in 1..3 : tasks[t].pc = "ok" /\ tasks[t].error = "none"
    /\ tasks[3].ops = <<Call("rpush", TRUE)>>
    /\ HasOp(2, "del", TRUE)
    /\ redis = <<>>
    /\ Len(mongo) = 1
    /\ mongo[1].originalPointsCount = 1

\* The keys the tasks, the fast store and the solo runs know.
KnownKeys ==
    DOMAIN redis \cup DOMAIN solo \cup {tasks[t].key : t \in TaskIds}

\* The documents of key k, in insert order.
DocSeqForKey(k) ==
    SelectSeq(mongo, LAMBDA doc : doc.driverId \o <<":">> \o doc.currentRouteId = k)

\* C21: in every interleaving, the list of each key, the documents of each
\* key and the range reads of its tasks are those of the run in which only
\* that key's tasks take their steps, in the same order; no task changes or
\* reads the list of another key.
C21_KeysDoNotInterfere ==
    \A k \in KnownKeys :
        LET run == SoloOf(solo, k)
        IN /\ Lrange(redis, k) = Lrange(run.redis, k)
           /\ DocSeqForKey(k) = run.mongo
           /\ \A t \in TaskIds :
                (tasks[t].key = k /\ HasOp(t, "lrange", TRUE)) =>
                    /\ t \in DOMAIN run.read
                    /\ tasks[t].locations = run.read[t]

C21_Witness ==
    /\ Len(tasks) = 3
    /\ overlapped
    /\ tasks[1].payload = InRoutePayload(D1, R1, 1, 1)
    /\ tasks[2].payload = FinishedPayload(D1, R1)
    /\ tasks[3].payload = InRoutePayload(D1, R2, 0, 1)
    /\ tasks[3].pc = "ok"
    /\ tasks[2].pc = "ok" /\ HasOp(2, "del", TRUE)
    /\ ~tasks[2].disturbed
    /\ Len(mongo) = 1
    /\ redis = (<<"d", "1", ":", "r", "2">> :> <<LocationToJson(Location(0, 1))>>)

\* The delete of task t was issued and failed.
DelFailed(t) == HasOp(t, "del", FALSE)

\* C22: a task whose delete failed after its insert succeeded has ended with
\* that error, its document stays persisted and, while no other task changes
\* the key, so does the list it read; a later FINISHED task of the key that
\* reads the list so left persists a second document with the same points.
C22_FailedDeleteLeavesRecordAndList ==
    \A t \in TaskIds :
        DelFailed(t) =>
            /\ tasks[t].pc = "err" /\ tasks[t].error = "del"
            /\ HasOp(t, "insert_one", TRUE)
            /\ Cardinality(DocsOf(t)) = 1
            /\ ~tasks[t].disturbed => Lrange(redis, tasks[t].key) = ReadList(t)
            /\ \A u \in TaskIds :
                (/\ u > t /\ tasks[u].key = tasks[t].key
                 /\ ~tasks[t].disturbed /\ ~tasks[u].disturbed
                 /\ HasOp(u, "insert_one", TRUE) /\ tasks[u].pc = "del") =>
                    \E i \in DocsOf(t), j \in DocsOf(u) :
                        /\ i # j
                        /\ mongo[j].simplifiedRoute = mongo[i].simplifiedRoute
                        /\ mongo[j].originalPointsCount = mongo[i].originalPointsCount
                        /\ mongo[j].driverId = mongo[i].driverId
                        /\ mongo[j].currentRouteId = mongo[i].currentRouteId

C22_Witness ==
    /\ Len(tasks) = 3
    /\ tasks[1].payload = InRoutePayload(D1, R1, 1, 1)
    /\ tasks[2].payload = FinishedPayload(D1, R1)
    /\ tasks[3].payload = FinishedPayload(D1, R1)
    /\ tasks[2].pc = "err" /\ tasks[2].error = "del"
    /\ ~tasks[2].disturbed
    /\ tasks[3].pc = "del"
    /\ ~overlapped
    /\ Len(mongo) = 2
    /\ mongo[1].simplifiedRoute = mongo[2].simplifiedRoute
    /\ mongo[1].originalPointsCount = 1
    /\ mongo[2].originalPointsCount = 1
    /\ Lrange(redis, <<"d", "1", ":", "r", "1">>) = <<LocationToJson(Location(1, 1))>>

\* Task g is a FINISHED task of the key of task f, and not f.
OtherFinalizer(f, g) ==
    /\ f # g
    /\ SaysStatus(tasks[f].payload, "finished")
    /\ SaysStatus(tasks[g].payload, "finished")
    /\ tasks[f].key = tasks[g].key

\* C23: the insert of a FINISHED task adds one document and leaves the rest
\* of the collection as it was; when it follows the insert of another FINISHED
\* task of the key that has not deleted yet, both having read the same list,
\* the collection holds two documents with the same driver id, route id and
\* original point count; a FINISHED task whose range read follows the other's
\* delete, the key being absent, ends without a document.
C23_EveryFinalizeInsertsItsOwnRecord ==
    [][\A g \in TaskIds :
        /\ (tasks[g].pc = "insert_one" /\ tasks'[g].pc = "del") =>
              /\ Len(mongo') = Len(mongo) + 1
              /\ SubSeq(mongo', 1, Len(mongo)) = mongo
              /\ mongo'[Len(mongo')]._id = g
              /\ mongo'[Len(mongo')].originalPointsCount = Len(tasks[g].locations)
              /\ tasks[g].locations # <<>>
              /\ \A f \in TaskIds :
                    (/\ OtherFinalizer(f, g)
                     /\ HasOp(f, "insert_one", TRUE) /\ ~HasOp(f, "del", TRUE)
                     /\ ~tasks[f].disturbed /\ ~tasks[g].disturbed) =>
                        \E i \in 1..Len(mongo) :
                            /\ mongo'[i]._id = f
                            /\ mongo'[i].driverId = mongo'[Len(mongo')].driverId
                            /\ mongo'[i].currentRouteId
                                    = mongo'[Len(mongo')].currentRouteId
                            /\ mongo'[i].originalPointsCount
                                    = mongo'[Len(mongo')].originalPointsCount
        /\ (tasks[g].pc = "lrange" /\ tasks'[g].ops = <<Call("lrange", TRUE)>>) =>
              \A f \in TaskIds :
                (/\ OtherFinalizer(f, g)
                 /\ tasks[f].pc = "ok" /\ HasOp(f, "del", TRUE)
                 /\ tasks[f].key \notin DOMAIN redis) =>
                    /\ tasks'[g].pc = "ok"
                    /\ mongo' = mongo
                    /\ \A i \in 1..Len(mongo) : mongo[i]._id # g]_vars

C23_Witness ==
    /\ Len(tasks) = 3
    /\ tasks[1].payload = InRoutePayload(D1, R1, 0, 0)
    /\ tasks[2].payload = FinishedPayload(D1, R1)
    /\ tasks[3].payload = FinishedPayload(D1, R1)
    /\ tasks[2].pc = "del" /\ tasks[3].pc = "del"
    /\ Len(mongo) = 2
    /\ mongo[1]._id = 3 /\ mongo[2]._id = 2
    /\ mongo[1].originalPointsCount = 1 /\ mongo[2].originalPointsCount = 1
    /\ mongo[1].currentRouteId = mongo[2].currentRouteId

\* C24: every document of the collection counts as original points the list
\* its task's range read returned and as simplified points its own
\* simplifiedRoute, with 1 <= simplified <= original; no document is changed
\* or removed once it is inserted.
C24_RecordsAreConsistentAndImmutable ==
    [][/\ \A g \in TaskIds :
            (tasks[g].pc = "lrange" /\ tasks'[g].pc = "insert_one") =>
                Len(tasks'[g].locations) = Len(Lrange(redis, tasks[g].key))
       /\ \A i \in 1..Len(mongo') :
            /\ mongo'[i].originalPointsCount = Len(tasks'[mongo'[i]._id].locations)
            /\ mongo'[i].simplifiedPointsCount = Len(mongo'[i].simplifiedRoute)
            /\ 1 <= mongo'[i].simplifiedPointsCount
            /\ mongo'[i].simplifiedPointsCount <= mongo'[i].originalPointsCount
       /\ Len(mongo') >= Len(mongo)
       /\ \A i \in 1..Len(mongo) : mongo'[i] = mongo[i]]_vars

C24_Witness ==
    /\ Len(tasks) = 3
    /\ tasks[1].payload = InRoutePayload(D1, R1, 1, 1)
    /\ tasks[2].payload = FinishedPayload(D1, R1)
    /\ tasks[3].payload = FinishedPayload(D1, R1)
    /\ \A t \in 1..3 : tasks[t].pc = "ok"
    /\ Len(mongo) = 1
    /\ mongo[1].originalPointsCount = 4
    /\ mongo[1].simplifiedPointsCount = 3
    /\ mongo[1].simplifiedRoute
            = <<PointDoc(Location(0, 0)), PointDoc(Location(2, 0)),
                PointDoc(Location(1, 1))>>

-----------------------------------------------------------------------------
(* Claims about the two reductions *)

\* C25 as claimed: simplify_route_custom reduces the five collinear test
\* points at tolerance 0.1 to the two endpoints (0,0) and (2,2), as
\* simplify_route does.
C25_CustomReducesStraightLine ==
    (simPc = "custom" /\ locations = TestLocations /\ tolerance = TestTolerance) =>
        result = <<Location(0, 0), Location(4, 4)>>

\* The input with every point tagged by its index, as a geo point and as a
\* Location; the reductions read the coordinates only.
IndexedPoints(locs) ==
    [i \in 1..Len(locs) |->
        [x |-> locs[i].longitude, y |-> locs[i].latitude, i |-> i]]

IndexedLocations(locs) ==
    [i \in 1..Len(locs) |->
        [latitude |-> locs[i].latitude, longitude |-> locs[i].longitude, i |-> i]]

\* The input indices simplify_route and simplify_route_custom keep.
KeptByRdp(locs, tol) ==
    LET out == Simplify(IndexedPoints(locs), tol)
    IN [m \in 1..Len(out) |-> out[m].i]

KeptByCustom(locs, tol) ==
    LET out == SimplifyRouteCustom(IndexedLocations(locs), tol)
    IN [m \in 1..Len(out) |-> out[m].i]

\* kept runs from the first to the last index of locs, strictly increasing,
\* and names the points of out.
KeepsAs(kept, locs, out) ==
    /\ out = [m \in 1..Len(kept) |-> locs[kept[m]]]
    /\ kept[1] = 1 /\ kept[Len(kept)] = Len(locs)
    /\ \A m \in 1..(Len(kept) - 1) : kept[m] < kept[m + 1]

\* C26: for an input of 3 or more points, every point simplify_route drops
\* lies within the tolerance of the chord joining the kept points on either
\* side of it, and every interior point it keeps is, on a segment between two
\* kept points around it, the farthest point from the chord and farther than
\* the tolerance.
C26_RdpBoundsTheDeviation ==
    (simPc = "library" /\ Len(locations) >= 3) =>
        LET kept == KeptByRdp(locations, tolerance)
            pts == PointsOf(locations)
            Dist(j, lo, hi) == SegmentDistSq(pts[j], pts[lo], pts[hi])
        IN /\ KeepsAs(kept, locations, result)
           /\ \A m \in 1..(Len(kept) - 1) :
                \A j \in (kept[m] + 1)..(kept[m + 1] - 1) :
                    ~ExceedsTolerance(Dist(j, kept[m], kept[m + 1]), tolerance)
           /\ \A m \in 2..(Len(kept) - 1) :
                \E a \in 1..(m - 1), b \in (m + 1)..Len(kept) :
                    /\ ExceedsTolerance(Dist(kept[m], kept[a], kept[b]), tolerance)
                    /\ \A j \in (kept[a] + 1)..(kept[b] - 1) :
                            ~FracGt(Dist(j, kept[a], kept[b]),
                                    Dist(kept[m], kept[a], kept[b]))

C26_Witness ==
    /\ simPc = "library"
    /\ Len(locations) = 4
    /\ KeptByRdp(locations, tolerance) = <<1, 3, 4>>
    /\ Cross(locations[2], locations[1], locations[3]) # 0

\* C27 as claimed: for an input of 3 or more points, every point
\* simplify_route_custom drops has perpendicular distance <= tolerance from
\* the line through the kept points on either side of it.
C27_CustomBoundsTheDeviation ==
    (simPc = "custom" /\ Len(locations) >= 3) =>
        LET kept == KeptByCustom(locations, tolerance)
        IN /\ KeepsAs(kept, locations, result)
           /\ \A m \in 1..(Len(kept) - 1) :
                \A j \in (kept[m] + 1)..(kept[m + 1] - 1) :
                    ~ExceedsTolerance(
                        PerpendicularDistanceSq(locations[j], locations[kept[m]],
                                                locations[kept[m + 1]]),
                        tolerance)

\* C28: simplify_route_custom terminates on every finite input: in every
\* iteration of the while loop i strictly increases and stays an index of
\* the input, so there are at most n - 1 iterations, a step is possible
\* until the method has returned, the loop is left with i at the last index,
\* and the Vec returned is the one the loop run as a whole returns.
C28_CustomLoopTerminates ==
    LET n == Len(locations)
    IN /\ simPc = "input" => ENABLED CustomStart
       /\ simPc = "loop" =>
            /\ ENABLED (CustomRound \/ CustomFinish)
            /\ anchor = trail[Len(trail)]
       /\ \A m \in 1..Len(trail) : trail[m] \in 1..n
       /\ \A m \in 1..(Len(trail) - 1) : trail[m] < trail[m + 1]
       /\ Len(trail) >= 1 => Len(trail) - 1 <= n - 1
       /\ simPc = "custom" =>
            /\ n >= 3 => anchor = n /\ trail[Len(trail)] = n
            /\ result = SimplifyRouteCustom(locations, tolerance)

\* The loop has run to its end over four points, its first iteration
\* stopped by the first scanned point being beyond the tolerance.
C28_Witness ==
    /\ simPc = "custom"
    /\ Len(locations) = 4
    /\ trail = <<1, 2, 3, 4>>
    /\ ExceedsTolerance(
           PerpendicularDistanceSq(locations[2], locations[1], locations[4]),
           tolerance)

=============================================================================
